---- MODULE Spec2Model ----
(***************************************************************************)
(* A model of FeatureFlagClient (src/src/FeatureFlagClient.ts): the        *)
(* client's configuration and its setters, the two cache partitions with   *)
(* their eviction timers, and the evaluateFlag / evaluateFlags pipeline     *)
(* (validation, cache lookup, retry loop with timeout timer and fixed       *)
(* delay, response interpretation, cache population).                       *)
(*                                                                          *)
(* Representation.  Strings whose characters the code inspects (the API     *)
(* key, the base URL) are sequences of one-character strings; the others    *)
(* are TLA+ strings.  JavaScript's undefined and null are the sentinel      *)
(* strings Undefined and Null.  Time is a discrete clock `now`; a timer is  *)
(* a record with the time it is due, and the clock does not pass a due      *)
(* timer before it has fired.                                               *)
(***************************************************************************)
EXTENDS Integers, Sequences, FiniteSets, TLC

VARIABLES
    constructed,     \* "ok" when the constructor returned, "threw" when it threw
    last,            \* history: the operation the last step performed and what it threw
    baseUrl,         \* this.baseUrl
    key,             \* this.key
    defaultTimeout,  \* this.defaultTimeout
    cacheTTL,        \* this.cacheTTL
    retryPolicy,     \* this.retryPolicy = [retries, delay]
    customHeaders,   \* this.customHeaders : header name -> value
    debug,           \* this.debug
    logger,          \* this.logger: the sink
    logged,          \* the messages the last step gave to a sink, in order, each with its sink
    flagCache,       \* this.flagCache  : cache key -> result of evaluateFlag
    flagsCache,      \* this.flagsCache : cache key -> result of evaluateFlags
    calls,           \* the evaluateFlag / evaluateFlags calls, one record per call slot
    timers,          \* the pending setTimeout callbacks that are not a call's own delay
    written,         \* history: per partition and key, the last write since the last clearCache
    now              \* the clock

vars == <<constructed, last, baseUrl, key, defaultTimeout, cacheTTL, retryPolicy,
          customHeaders, debug, logger, logged, flagCache, flagsCache, calls, timers, written, now>>

config == <<baseUrl, key, defaultTimeout, cacheTTL, retryPolicy, customHeaders>>
caches == <<flagCache, flagsCache>>

----------------------------------------------------------------------------
(* Bounds of the model *)

\* the clock stops at MaxTime
MaxTime == 3
\* setRetryPolicy is called with retries in 0..MaxRetries
MaxRetries == 2

----------------------------------------------------------------------------
(* Strings *)

Undefined == "<undefined>"
Null == "<null>"

\* a ?? b
Coalesce(a, b) == IF a = Undefined \/ a = Null THEN b ELSE a

\* !s for a string or undefined
Falsy(s) == s = Undefined \/ s = "" \/ s = Null

DEFAULT_BASE_URL == <<"h","t","t","p",":","/","/","l","o","c","a","l","h","o","s","t",":","5","1","7","3">>
API_URL == <<"h","t","t","p","s",":","/","/","a","p","i",".","e","x","a","m","p","l","e",".","c","o","m">>
NEW_URL == <<"h","t","t","p","s",":","/","/","n","e","w","-","a","p","i",".","e","x","a","m","p","l","e",".","c","o","m">>
INVALID_URL == <<"i","n","v","a","l","i","d","-","u","r","l">>
NOHOST_URL == <<"h","t","t","p",":","/","/">>
EMPTY == <<>>
KEY0 == <<"0","d","a","8","f","3","5","7","c","e","7","a","2","b","0","1","e","f","f","e","5","9","9","2","f","2","9","5","a","5","9","2">>
KEY1 == <<"1","f","a","8","f","3","5","7","c","e","6","a","2","b","0","1","e","f","f","e","5","9","9","2","f","2","9","5","a","7","4","2">>
INVALID_KEY == <<"i","n","v","a","l","i","d","-","k","e","y">>
\* KEY0 without its last character, and KEY0 with a last character that is no hexadecimal digit
SHORT_KEY == SubSeq(KEY0, 1, 31)
NOT_HEX_KEY == [KEY0 EXCEPT ![32] = "g"]
FLAG_PATH == <<"/","a","p","i","/","v","1","/","e","v","a","l","u","a","t","e","/","f","l","a","g">>
FLAGS_PATH == <<"/","a","p","i","/","v","1","/","e","v","a","l","u","a","t","e","/","f","l","a","g","s">>

Digits == {"0","1","2","3","4","5","6","7","8","9"}
HexLetters == {"a","b","c","d","e","f","A","B","C","D","E","F"}
Letters == {"a","b","c","d","e","f","g","h","i","j","k","l","m","n","o","p","q","r","s","t","u","v","w","x","y","z"}

\* An exception: the message is `prefix` followed by the characters of `arg`.
Error(prefix, arg) == [prefix |-> prefix, arg |-> arg]
NoError == Error("", EMPTY)

\* history: the last step was operation `op` called with the string `arg`, and
\* threw `error` (NoError when it returned).  The operations whose outcome the
\* properties read are recorded by name, every other step as Other.  For the
\* constructor, url is the config.baseUrl it was given (EMPTY when absent).
Op(op, arg, error) == [op |-> op, arg |-> arg, error |-> error, url |-> EMPTY]
Other == Op("other", EMPTY, NoError)

INVALID_KEY_MESSAGE == "Invalid API key. The key must be a 32-character hexadecimal string."

----------------------------------------------------------------------------
(* Validators *)

\* /^[0-9a-f]{32}$/i .test(key)
validateApiKeyLoose(k) == Len(k) > 0

validateApiKey(k) ==
    /\ Len(k) = 32
    /\ \A i \in 1..Len(k) : k[i] \in Digits \cup HexLetters

\* The position of the first ":" of s, 0 when there is none.
FirstColon(s) ==
    IF \E i \in 1..Len(s) : s[i] = ":"
    THEN CHOOSE i \in 1..Len(s) : s[i] = ":" /\ \A j \in 1..(i-1) : s[j] # ":"
    ELSE 0

\* The index of the first character of s after position i that is not a slash.
SkipSlashes(s, i) ==
    IF \E j \in (i+1)..Len(s) : s[j] \notin {"/", "\\"}
    THEN CHOOSE j \in (i+1)..Len(s) :
            s[j] \notin {"/", "\\"} /\ \A m \in (i+1)..(j-1) : s[m] \in {"/", "\\"}
    ELSE Len(s) + 1

SpecialSchemes == { <<"h","t","t","p">>, <<"h","t","t","p","s">>, <<"f","t","p">>,
                    <<"w","s">>, <<"w","s","s">> }

\* new URL(s) does not throw: s starts with a scheme (a letter, then letters,
\* digits, "+", "-", "."), a ":" follows it, and a special scheme is followed
\* by a host that is not empty.
ParsesAsURL(s) ==
    LET c == FirstColon(s) IN
    /\ c > 1
    /\ s[1] \in Letters
    /\ \A i \in 2..(c-1) : s[i] \in Letters \cup Digits \cup {"+", "-", "."}
    /\ SubSeq(s, 1, c-1) \in SpecialSchemes =>
          LET h == SkipSlashes(s, c) IN
          h <= Len(s) /\ s[h] \notin {":", "?", "#", " "}

validateBaseUrlLoose(s) == Len(s) > 0

validateBaseUrl(s) == ParsesAsURL(s)

----------------------------------------------------------------------------
(* Requests, results and responses *)

\* "flag" in request is false
Absent == "<absent>"

NoUser == [defined |-> FALSE, id |-> Undefined]
User(id) == [defined |-> TRUE, id |-> id]

\* The requests the callers make: the flag field absent or present, the
\* environment undefined, empty or set, the user undefined, or its id
\* undefined, empty or set.
Flags == {"f1", "f2"}
Requests ==
    [ flag : {Absent} \cup Flags,
      environment : {Undefined, "", "prod"},
      user : {NoUser, User(Undefined), User(""), User("u1")} ]

\* The requests of the pipeline's exploration: the valid ones, and those
\* without a flag field, without a user or with an empty user id.
PipelineRequests ==
    { r \in Requests : r.environment = "prod" /\ r.user \in {User("u1"), NoUser, User("")} }

\* an evaluateFlag request and an evaluateFlags request of the same environment and user
RequestF1 == [flag |-> "f1", environment |-> "prod", user |-> User("u1")]
RequestAll == [flag |-> Absent, environment |-> "prod", user |-> User("u1")]

\* validateRequest: the message of the error it throws, "" when it returns.
validateRequestUserFirst(request, isMultiple) ==
    IF ~request.user.defined \/ Falsy(request.user.id) THEN "User ID is required"
    ELSE IF ~isMultiple /\ request.flag = Absent THEN "Flag is required"
    ELSE IF Falsy(request.environment) THEN "Environment is required"
    ELSE ""

validateRequestNoUserCheck(request, isMultiple) ==
    IF ~isMultiple /\ request.flag = Absent THEN "Flag is required"
    ELSE IF Falsy(request.environment) THEN "Environment is required"
    ELSE ""

validateRequest(request, isMultiple) ==
    IF ~isMultiple /\ request.flag = Absent THEN "Flag is required"
    ELSE IF Falsy(request.environment) THEN "Environment is required"
    ELSE IF ~request.user.defined \/ Falsy(request.user.id) THEN "User ID is required"
    ELSE ""

\* getCacheKey: `${request.environment}:${request.user.id}`
getCacheKeyEnvironmentOnly(request) == request.environment

getCacheKey(request) == request.environment \o ":" \o request.user.id

\* What a call resolves to: undefined, an EvaluateFlagResponse, or a list of them.
NoResult == [tag |-> "undefined", flag |-> "", enabled |-> FALSE, list |-> <<>>]
FlagResult(f, e) == [tag |-> "flag", flag |-> f, enabled |-> e, list |-> <<>>]
FlagsResult(l) == [tag |-> "flags", flag |-> "", enabled |-> FALSE, list |-> l]

\* What the transport gave an attempt.  A response (received): .ok, whether
\* the body parses as JSON, the parsed body's error field (Undefined when it
\* has none) and value, and the raw text.
OkResponse(v) == [received |-> TRUE, ok |-> TRUE, json |-> TRUE, error |-> Undefined, text |-> "", value |-> v]
MalformedOkResponse == [received |-> TRUE, ok |-> TRUE, json |-> FALSE, error |-> Undefined, text |-> "<html>", value |-> NoResult]
JsonErrorResponse(e) == [received |-> TRUE, ok |-> FALSE, json |-> TRUE, error |-> e, text |-> "", value |-> NoResult]
TextErrorResponse(t) == [received |-> TRUE, ok |-> FALSE, json |-> FALSE, error |-> Undefined, text |-> t, value |-> NoResult]
\* no response: the transport rejected with a network error
NetworkError == [received |-> FALSE, ok |-> FALSE, json |-> FALSE, error |-> Undefined, text |-> "rejected", value |-> NoResult]
NoResponse == [received |-> FALSE, ok |-> FALSE, json |-> FALSE, error |-> Undefined, text |-> "", value |-> NoResult]

\* The success bodies the service sends for a request.
Bodies(isMultiple, request) ==
    IF isMultiple
    THEN { FlagsResult(<<>>), FlagsResult(<<FlagResult("f1", TRUE), FlagResult("f2", FALSE)>>) }
    ELSE { FlagResult(request.flag, e) : e \in BOOLEAN }

ErrorResponses ==
    { JsonErrorResponse("X"), JsonErrorResponse(Undefined), JsonErrorResponse(Null),
      TextErrorResponse("Y"), TextErrorResponse("") }

Responses(isMultiple, request) ==
    { OkResponse(v) : v \in Bodies(isMultiple, request) }
        \cup {MalformedOkResponse} \cup ErrorResponses

JSON_ERROR_MESSAGE == "Unexpected token < in JSON"
NETWORK_ERROR_MESSAGE == "Network request failed"

\* What awaiting a step gives: a value, or an error with its message.
Returns(v) == [threw |-> FALSE, message |-> "", value |-> v]
Throws(m) == [threw |-> TRUE, message |-> m, value |-> NoResult]

\* handleErrorResponse(response, errorMessage)
handleErrorResponseNoDetail(response, errorMessage) ==
    IF ~response.ok
    THEN Throws(errorMessage \o ": " \o "Internal Server Error")
    ELSE IF response.json THEN Returns(response.value) ELSE Throws(JSON_ERROR_MESSAGE)

handleErrorResponseIgnoresStatus(response, errorMessage) ==
    IF response.json THEN Returns(response.value) ELSE Throws(JSON_ERROR_MESSAGE)

handleErrorResponse(response, errorMessage) ==
    IF ~response.ok
    THEN LET errorDetail ==
                 IF response.json
                 THEN Coalesce(response.error, "Internal Server Error")
                 ELSE Coalesce(response.text, "Internal Server Error")
         IN Throws(errorMessage \o ": " \o errorDetail)
    ELSE IF response.json THEN Returns(response.value) ELSE Throws(JSON_ERROR_MESSAGE)

ErrorPrefix(isMultiple) ==
    IF isMultiple THEN "Failed to evaluate flags" ELSE "Failed to evaluate flag"

----------------------------------------------------------------------------
(* Logging *)

\* The sinks: console.log, and two functions the caller sets.
CONSOLE == "console.log"
Sinks == {"customLogger", "customLogger2"}

\* A message: its text, the base URL it ends with (in the messages of
\* setBaseUrl and resetBaseUrl) and the result it prints (in the message of a
\* successful evaluation).
Message(text, url, value) == [text |-> text, url |-> url, value |-> value]

\* `[FeatureFlagClient] ${message}`
Prefixed(m) == [m EXCEPT !.text = "[FeatureFlagClient] " \o @]

\* log(message), for the messages a step logs in order: with debug on each
\* goes to the sink, with debug off none does.  A step reads this.debug and
\* this.logger after its own assignments.
logAlways(messages) ==
    /\ logged' = [i \in 1..Len(messages) |-> [sink |-> logger', message |-> Prefixed(messages[i])]]

log(messages) ==
    /\ logged' = IF debug'
                 THEN [i \in 1..Len(messages) |->
                          [sink |-> logger', message |-> Prefixed(messages[i])]]
                 ELSE <<>>

\* `Attempt ${attempt} failed.`
AttemptFailed(attempt) ==
    Message("Attempt " \o ToString(attempt) \o " failed.", EMPTY, NoResult)

----------------------------------------------------------------------------
(* Construction *)

DEFAULT_TIMEOUT == 5000
DEFAULT_RETRIES == 3
DEFAULT_DELAY == 1000
DEFAULT_CACHE_TTL == 0

\* The call slots: the calls that can be in flight together.
CallIds == {1, 2}

\* A Map: a function whose domain is the set of its keys.
EmptyMap == [k \in {} |-> 0]
Has(map, k) == k \in DOMAIN map
PutIfAbsent(map, k, v) ==
    [x \in DOMAIN map \cup {k} |-> IF x = k /\ k \notin DOMAIN map THEN v ELSE map[x]]
Put(map, k, v) == [x \in DOMAIN map \cup {k} |-> IF x = k THEN v ELSE map[x]]
Delete(map, k) == [x \in DOMAIN map \ {k} |-> map[x]]

\* The two cache partitions.
Partitions == {"flag", "flags"}
PartitionOf(isMultiple) == IF isMultiple THEN "flags" ELSE "flag"

\* A timer set at `now` for d ms is due at now + d.  The clock stops at
\* MaxTime, so a timer due later never fires: all of those are due at MaxTime + 1.
Due(d) == IF now + d > MaxTime THEN MaxTime + 1 ELSE now + d

NoRequest == [flag |-> Absent, environment |-> Undefined, user |-> NoUser]

\* history: the configuration in force when a call started
NoSnapshot == [retries |-> 0, delay |-> 0, baseUrl |-> EMPTY, cacheTTL |-> 0]
Snapshot ==
    [retries |-> retryPolicy.retries, delay |-> retryPolicy.delay,
     baseUrl |-> baseUrl, cacheTTL |-> cacheTTL]

IdleCall ==
    [ pc |-> "idle",            \* idle, fetching, delaying, returned, rejected
      isMultiple |-> FALSE,     \* evaluateFlags (TRUE) or evaluateFlag (FALSE)
      request |-> NoRequest,
      timeout |-> 0,            \* the timeout parameter
      attempt |-> 0,            \* the loop counter
      timeoutId |-> 0,          \* when the timeout timer of the attempt is due
      resumeAt |-> 0,           \* when the retry delay ends
      url |-> EMPTY,            \* the URL of the attempt's network call
      headers |-> EmptyMap,     \* the headers of the attempt's network call
      result |-> NoResult,      \* what the call resolved to
      error |-> "",             \* the message of the error the call rejected with
      response |-> NoResponse,  \* history: what the transport gave the last attempt
      fetches |-> 0,            \* history: the network calls made
      delays |-> 0,             \* history: the retry delays started
      pending |-> 0,            \* history: the network calls the transport has not answered
      hit |-> FALSE,            \* history: the call was answered from the cache
      started |-> NoSnapshot,   \* history: the configuration when the call started
      malformed |-> FALSE,      \* history: the delay follows a success response that did not parse
      stable |-> TRUE ]         \* history: the retry policy did not change during the call

InFlight(c) == calls[c].pc \in {"fetching", "delaying"}
Settled(c) == calls[c].pc \in {"returned", "rejected"}

\* constructor(config): config.key, config.baseUrl (EMPTY when absent),
\* config.defaultTimeout (0 when absent), config.debug (FALSE when absent)
ConstructorThrowsOnEmpty(cfg) == Len(cfg.key) = 0

ConstructorThrows(cfg) == Len(cfg.key) = 0 \/ ~validateApiKey(cfg.key)

Constructor(cfg) ==
    /\ last = [Op("constructor", cfg.key,
                  IF ConstructorThrows(cfg) THEN Error(INVALID_KEY_MESSAGE, EMPTY) ELSE NoError)
                EXCEPT !.url = cfg.baseUrl]
    /\ constructed = IF ConstructorThrows(cfg) THEN "threw" ELSE "ok"
    /\ baseUrl = IF ConstructorThrows(cfg) THEN EMPTY
                 ELSE IF Len(cfg.baseUrl) = 0 THEN DEFAULT_BASE_URL ELSE cfg.baseUrl
    /\ key = IF ConstructorThrows(cfg) THEN EMPTY ELSE cfg.key
    /\ defaultTimeout = IF cfg.defaultTimeout = 0 THEN DEFAULT_TIMEOUT ELSE cfg.defaultTimeout
    /\ cacheTTL = DEFAULT_CACHE_TTL
    /\ retryPolicy = [retries |-> DEFAULT_RETRIES, delay |-> DEFAULT_DELAY]
    /\ customHeaders = EmptyMap
    /\ debug = cfg.debug
    /\ logger = CONSOLE
    /\ logged = <<>>
    /\ flagCache = EmptyMap
    /\ flagsCache = EmptyMap
    /\ calls = [c \in CallIds |-> IdleCall]
    /\ timers = {}
    /\ written = [p \in Partitions |-> EmptyMap]
    /\ now = 0

\* The configurations the pipeline is explored from.
PipelineConfigs ==
    { [key |-> KEY0, baseUrl |-> API_URL, defaultTimeout |-> 0, debug |-> FALSE] }

\* The configurations the configuration surface is explored from.
AllConfigs ==
    [ key : {KEY0, EMPTY, INVALID_KEY, SHORT_KEY, NOT_HEX_KEY},
      baseUrl : {EMPTY, API_URL, INVALID_URL},
      defaultTimeout : {0},
      debug : {FALSE} ]

\* The configurations logging is explored from.
LogConfigs ==
    [ key : {KEY0}, baseUrl : {EMPTY}, defaultTimeout : {0}, debug : BOOLEAN ]

Init == \E cfg \in PipelineConfigs : Constructor(cfg)
InitConfig == \E cfg \in AllConfigs : Constructor(cfg)
InitLog == \E cfg \in LogConfigs : Constructor(cfg)

----------------------------------------------------------------------------
(* Setters *)

\* setBaseUrl(url)
setBaseUrl(url) ==
    /\ constructed = "ok"
    /\ IF ~validateBaseUrl(url)
       THEN /\ last' = Op("setBaseUrl", url, Error("Invalid base URL: ", url))
            /\ UNCHANGED baseUrl
       ELSE /\ baseUrl' = url
            /\ last' = Op("setBaseUrl", url, NoError)
    /\ UNCHANGED <<constructed, customHeaders, debug, logger, key, defaultTimeout, cacheTTL, retryPolicy,
                   flagCache, flagsCache, calls, timers, written, now>>
    /\ log(IF ~validateBaseUrl(url) THEN <<>>
           ELSE <<Message("Base URL updated to: ", url, NoResult)>>)

\* resetBaseUrl()
resetBaseUrl ==
    /\ constructed = "ok"
    /\ baseUrl' = DEFAULT_BASE_URL
    /\ last' = Other
    /\ UNCHANGED <<constructed, customHeaders, debug, logger, key, defaultTimeout, cacheTTL, retryPolicy,
                   flagCache, flagsCache, calls, timers, written, now>>
    /\ log(<<Message("Base URL reset to: ", DEFAULT_BASE_URL, NoResult)>>)

\* setApiKey(k)
setApiKey(k) ==
    /\ constructed = "ok"
    /\ IF Len(k) = 0
       THEN /\ last' = Op("setApiKey", k, Error("API key is required", EMPTY))
            /\ UNCHANGED key
       ELSE /\ key' = k
            /\ last' = Op("setApiKey", k, NoError)
    /\ UNCHANGED <<constructed, customHeaders, debug, logger, baseUrl, defaultTimeout, cacheTTL, retryPolicy,
                   flagCache, flagsCache, calls, timers, written, now>>
    /\ log(IF Len(k) = 0 THEN <<>> ELSE <<Message("API key updated.", EMPTY, NoResult)>>)

\* setRetryPolicy(retries, delay)
setRetryPolicy(retries, delay) ==
    /\ constructed = "ok"
    /\ retryPolicy' = [retries |-> retries, delay |-> delay]
    /\ calls' = [c \in CallIds |->
                    IF InFlight(c) /\ retryPolicy' # retryPolicy
                    THEN [calls[c] EXCEPT !.stable = FALSE] ELSE calls[c]]
    /\ last' = Other
    /\ UNCHANGED <<constructed, customHeaders, debug, logger, baseUrl, key, defaultTimeout, cacheTTL,
                   flagCache, flagsCache, timers, written, now>>
    /\ log(<<Message("Retry policy updated: " \o ToString(retries) \o " retries with "
                       \o ToString(delay) \o "ms delay.", EMPTY, NoResult)>>)

\* setCacheTTL(ttl)
setCacheTTL(ttl) ==
    /\ constructed = "ok"
    /\ cacheTTL' = ttl
    /\ last' = Other
    /\ UNCHANGED <<constructed, customHeaders, debug, logger, baseUrl, key, defaultTimeout, retryPolicy,
                   flagCache, flagsCache, calls, timers, written, now>>
    /\ log(<<Message("Cache TTL set to: " \o ToString(ttl) \o "ms.", EMPTY, NoResult)>>)

\* setTimeout(timeout): the client's setter of the default timeout
setTimeout(timeout) ==
    /\ constructed = "ok"
    /\ defaultTimeout' = timeout
    /\ last' = Other
    /\ UNCHANGED <<constructed, customHeaders, debug, logger, baseUrl, key, cacheTTL, retryPolicy,
                   flagCache, flagsCache, calls, timers, written, now>>
    /\ log(<<Message("Default timeout updated to: " \o ToString(timeout) \o "ms", EMPTY, NoResult)>>)

\* setDebug(enabled)
setDebug(enabled) ==
    /\ constructed = "ok"
    /\ debug' = enabled
    /\ last' = Other
    /\ UNCHANGED <<constructed, customHeaders, logger, baseUrl, key, defaultTimeout, cacheTTL,
                   retryPolicy, flagCache, flagsCache, calls, timers, written, now>>
    /\ log(<<Message("Debug logging " \o (IF enabled THEN "enabled" ELSE "disabled") \o ".",
                     EMPTY, NoResult)>>)

\* setLogger(logger)
setLogger(sink) ==
    /\ constructed = "ok"
    /\ logger' = sink
    /\ last' = Other
    /\ UNCHANGED <<constructed, customHeaders, debug, baseUrl, key, defaultTimeout, cacheTTL,
                   retryPolicy, flagCache, flagsCache, calls, timers, written, now>>
    /\ log(<<Message("Custom logger set.", EMPTY, NoResult)>>)

\* setCustomHeaders(headers)
setCustomHeaders(headers) ==
    /\ constructed = "ok"
    /\ customHeaders' = headers
    /\ last' = Other
    /\ UNCHANGED <<constructed, debug, logger, baseUrl, key, defaultTimeout, cacheTTL, retryPolicy,
                   flagCache, flagsCache, calls, timers, written, now>>
    /\ log(<<Message("Custom headers updated.", EMPTY, NoResult)>>)

\* clearCache()
clearCacheOnlyFlags ==
    /\ constructed = "ok"
    /\ flagsCache' = EmptyMap
    /\ written' = [written EXCEPT !["flags"] = EmptyMap]
    /\ last' = Op("clearCache", EMPTY, NoError)
    /\ UNCHANGED <<constructed, customHeaders, debug, logger, baseUrl, key, defaultTimeout, cacheTTL, retryPolicy,
                   flagCache, calls, timers, now>>
    /\ log(<<Message("Cache cleared.", EMPTY, NoResult)>>)

clearCache ==
    /\ constructed = "ok"
    /\ flagCache' = EmptyMap
    /\ flagsCache' = EmptyMap
    /\ written' = [p \in Partitions |-> EmptyMap]
    /\ last' = Op("clearCache", EMPTY, NoError)
    /\ UNCHANGED <<constructed, customHeaders, debug, logger, baseUrl, key, defaultTimeout, cacheTTL, retryPolicy,
                   calls, timers, now>>
    /\ log(<<Message("Cache cleared.", EMPTY, NoResult)>>)

\* getCacheSize()
getCacheSize ==
    [flagCache |-> Cardinality(DOMAIN flagCache), flagsCache |-> Cardinality(DOMAIN flagsCache)]

\* getConfig()
getConfig ==
    [key |-> key, baseUrl |-> baseUrl, debug |-> debug, defaultTimeout |-> defaultTimeout,
     customHeaders |-> customHeaders]

----------------------------------------------------------------------------
(* Timers *)

\* setTimeout(() => controller.abort(), timeout) of attempt `attempt` of call c
AbortTimer(c, attempt, due) ==
    [type |-> "abort", call |-> c, attempt |-> attempt, cache |-> "", key |-> "", due |-> due]

\* setTimeout(() => cache.delete(key), this.cacheTTL)
EvictTimer(partition, k, due) ==
    [type |-> "evict", call |-> 0, attempt |-> 0, cache |-> partition, key |-> k, due |-> due]

\* history: the last write of an entry: its value, and when the TTL of that
\* moment ends (expires is FALSE when the TTL was not positive)
Written(value, ttl) ==
    [value |-> value, expires |-> ttl > 0, at |-> IF ttl > 0 THEN Due(ttl) ELSE 0]

----------------------------------------------------------------------------
(* The evaluation pipeline *)

\* getHeaders(): { "Content-Type": "application/json", "x-api-key": this.key,
\* ...this.customHeaders }; of two properties of the same name the later wins
APPLICATION_JSON == <<"a","p","p","l","i","c","a","t","i","o","n","/","j","s","o","n">>

getHeadersDefaultsLast ==
    [ n \in DOMAIN customHeaders \cup {"Content-Type", "x-api-key"} |->
        IF n = "x-api-key" THEN key
        ELSE IF n = "Content-Type" THEN APPLICATION_JSON
        ELSE customHeaders[n] ]

getHeaders ==
    [ n \in {"Content-Type", "x-api-key"} \cup DOMAIN customHeaders |->
        IF n \in DOMAIN customHeaders THEN customHeaders[n]
        ELSE IF n = "x-api-key" THEN key
        ELSE APPLICATION_JSON ]

\* the partition a call reads and writes
CacheOfOther(isMultiple) == IF isMultiple THEN flagCache ELSE flagsCache

CacheOf(isMultiple) == IF isMultiple THEN flagsCache ELSE flagCache

EndpointPath(isMultiple) == IF isMultiple THEN FLAGS_PATH ELSE FLAG_PATH

\* the call is over: it returned `result` or rejected with `error`
EndCall(rec, pc, result, error, response) ==
    [rec EXCEPT !.pc = pc, !.result = result, !.error = error, !.response = response,
                !.timeout = 0, !.attempt = 0, !.timeoutId = 0, !.resumeAt = 0, !.url = EMPTY,
                !.headers = EmptyMap, !.started = NoSnapshot, !.malformed = FALSE]

\* for (...; attempt <= this.retryPolicy.retries; ...) { setTimeout(abort); fetch(...) }
\* and, when the loop condition fails, the end of the function: it returns undefined
AttemptOffByOne(rec, attempt) ==
    IF attempt < retryPolicy.retries
    THEN [rec EXCEPT !.pc = "fetching", !.attempt = attempt,
                     !.timeoutId = Due(rec.timeout), !.resumeAt = 0,
                     !.url = baseUrl \o EndpointPath(rec.isMultiple),
                     !.headers = getHeaders,
                     !.fetches = @ + 1, !.pending = @ + 1, !.malformed = FALSE]
    ELSE EndCall(rec, "returned", NoResult, "", NoResponse)

AttemptAtLeastOnce(rec, attempt) ==
    IF attempt = 1 \/ attempt <= retryPolicy.retries
    THEN [rec EXCEPT !.pc = "fetching", !.attempt = attempt,
                     !.timeoutId = Due(rec.timeout), !.resumeAt = 0,
                     !.url = baseUrl \o EndpointPath(rec.isMultiple),
                     !.headers = getHeaders,
                     !.fetches = @ + 1, !.pending = @ + 1, !.malformed = FALSE]
    ELSE EndCall(rec, "returned", NoResult, "", NoResponse)

Attempt(rec, attempt) ==
    IF attempt <= retryPolicy.retries
    THEN [rec EXCEPT !.pc = "fetching", !.attempt = attempt,
                     !.timeoutId = Due(rec.timeout), !.resumeAt = 0,
                     !.url = baseUrl \o EndpointPath(rec.isMultiple),
                     !.headers = getHeaders,
                     !.fetches = @ + 1, !.pending = @ + 1, !.malformed = FALSE]
    ELSE EndCall(rec, "returned", NoResult, "", NoResponse)

\* the timeout timer the attempt has set, if the attempt started
TimersOf(c, rec) ==
    IF rec.pc = "fetching" THEN {AbortTimer(c, rec.attempt, rec.timeoutId)} ELSE {}

\* if (attempt === retries) in evaluateFlags, if (attempt >= retries) in evaluateFlag
IsFinalAttempt(rec) ==
    IF rec.isMultiple THEN rec.attempt = retryPolicy.retries
    ELSE rec.attempt >= retryPolicy.retries

\* catch (error): throw on the final attempt, otherwise start the retry delay
CatchNoDelay(rec, message, response) ==
    IF IsFinalAttempt(rec)
    THEN EndCall(rec, "rejected", NoResult, message, response)
    ELSE [rec EXCEPT !.pc = "delaying", !.resumeAt = now, !.timeoutId = 0,
                     !.url = EMPTY, !.headers = EmptyMap, !.delays = @ + 1,
                     !.malformed = response.received /\ response.ok]

CatchKeepsFirst(rec, message, response) ==
    IF IsFinalAttempt(rec)
    THEN EndCall(rec, "rejected", NoResult, IF rec.error # "" THEN rec.error ELSE message,
                 response)
    ELSE [rec EXCEPT !.pc = "delaying", !.resumeAt = Due(retryPolicy.delay), !.timeoutId = 0,
                     !.url = EMPTY, !.headers = EmptyMap, !.delays = @ + 1,
                     !.error = IF rec.error # "" THEN rec.error ELSE message,
                     !.malformed = response.received /\ response.ok]

Catch(rec, message, response) ==
    IF IsFinalAttempt(rec)
    THEN EndCall(rec, "rejected", NoResult, message, response)
    ELSE [rec EXCEPT !.pc = "delaying", !.resumeAt = Due(retryPolicy.delay), !.timeoutId = 0,
                     !.url = EMPTY, !.headers = EmptyMap, !.delays = @ + 1,
                     !.malformed = response.received /\ response.ok]

\* evaluateFlag / evaluateFlags up to the first await: validation, cache
\* lookup, and on a miss the first attempt's network call
StartLookupFirst(isMultiple, request, timeoutArg) ==
    LET new == [IdleCall EXCEPT !.isMultiple = isMultiple, !.request = request,
                                !.started = Snapshot,
                                !.timeout = IF timeoutArg = <<>> THEN defaultTimeout
                                            ELSE timeoutArg[1]]
        invalid == validateRequest(request, isMultiple)
    IN  IF Has(CacheOf(isMultiple), getCacheKey(request))
        THEN EndCall([new EXCEPT !.hit = TRUE], "returned",
                     CacheOf(isMultiple)[getCacheKey(request)], "", NoResponse)
        ELSE IF invalid # ""
        THEN EndCall(new, "rejected", NoResult, invalid, NoResponse)
        ELSE Attempt(new, 1)

Start(isMultiple, request, timeoutArg) ==
    LET new == [IdleCall EXCEPT !.isMultiple = isMultiple, !.request = request,
                                !.started = Snapshot,
                                !.timeout = IF timeoutArg = <<>> THEN defaultTimeout
                                            ELSE timeoutArg[1]]
        invalid == validateRequest(request, isMultiple)
    IN  IF invalid # ""
        THEN EndCall(new, "rejected", NoResult, invalid, NoResponse)
        ELSE IF Has(CacheOf(isMultiple), getCacheKey(request))
        THEN EndCall([new EXCEPT !.hit = TRUE], "returned",
                     CacheOf(isMultiple)[getCacheKey(request)], "", NoResponse)
        ELSE Attempt(new, 1)

evaluate(c, isMultiple, request, timeoutArg) ==
    /\ constructed = "ok"
    /\ calls[c].pc = "idle"
    /\ LET after == Start(isMultiple, request, timeoutArg)
       IN /\ calls' = [calls EXCEPT ![c] = after]
          /\ timers' = timers \cup TimersOf(c, after)
    /\ last' = Other
    /\ UNCHANGED <<constructed, customHeaders, debug, logger, baseUrl, key, defaultTimeout, cacheTTL, retryPolicy,
                   flagCache, flagsCache, written, now>>
    /\ log(<<Message(IF isMultiple THEN "Evaluating flags..." ELSE "Evaluating flag...",
                     EMPTY, NoResult)>>)

evaluateFlags(c, request, timeoutArg) == evaluate(c, TRUE, request, timeoutArg)

evaluateFlag(c, request, timeoutArg) == evaluate(c, FALSE, request, timeoutArg)

\* setCache(cache, key, value): the partitions, the timers and the history after it
setCacheBoth(isMultiple, k, value, pending) ==
    /\ flagsCache' = Put(flagsCache, k, value)
    /\ flagCache' = Put(flagCache, k, value)
    /\ timers' = pending \cup
                   IF cacheTTL > 0
                   THEN {EvictTimer(PartitionOf(isMultiple), k, Due(cacheTTL))} ELSE {}
    /\ written' = [written EXCEPT ![PartitionOf(isMultiple)] = Put(@, k, Written(value, cacheTTL))]

setCache(isMultiple, k, value, pending) ==
    /\ IF isMultiple
       THEN flagsCache' = Put(flagsCache, k, value) /\ UNCHANGED flagCache
       ELSE flagCache' = Put(flagCache, k, value) /\ UNCHANGED flagsCache
    /\ timers' = pending \cup
                   IF cacheTTL > 0
                   THEN {EvictTimer(PartitionOf(isMultiple), k, Due(cacheTTL))} ELSE {}
    /\ written' = [written EXCEPT ![PartitionOf(isMultiple)] = Put(@, k, Written(value, cacheTTL))]

\* the transport answers attempt `attempt` of call c with `response`
FetchResolves(c, response) ==
    /\ calls[c].pc = "fetching"
    /\ response \in Responses(calls[c].isMultiple, calls[c].request)
    /\ LET rec == [calls[c] EXCEPT !.pending = @ - 1]
           \* clearTimeout(timeoutId)
           pending == timers \ {AbortTimer(c, rec.attempt, rec.timeoutId)}
           out == handleErrorResponse(response, ErrorPrefix(rec.isMultiple))
       IN IF out.threw
          THEN /\ calls' = [calls EXCEPT ![c] = Catch(rec, out.message, response)]
               /\ timers' = pending
               /\ UNCHANGED <<flagCache, flagsCache, written>>
          ELSE /\ calls' = [calls EXCEPT ![c] = EndCall(rec, "returned", out.value, "", response)]
               /\ setCache(rec.isMultiple, getCacheKey(rec.request), out.value, pending)
    /\ last' = Other
    /\ UNCHANGED <<constructed, customHeaders, debug, logger, baseUrl, key, defaultTimeout, cacheTTL, retryPolicy, now>>
    /\ log(LET out == handleErrorResponse(response, ErrorPrefix(calls[c].isMultiple))
           IN  IF out.threw THEN <<AttemptFailed(calls[c].attempt)>>
               ELSE <<Message(IF calls[c].isMultiple THEN "Flags evaluated: "
                              ELSE "Flag evaluated: ", EMPTY, out.value)>>)

\* the transport rejects attempt `attempt` of call c (a network error)
FetchRejects(c) ==
    /\ calls[c].pc = "fetching"
    /\ calls' = [calls EXCEPT ![c] = Catch([calls[c] EXCEPT !.pending = @ - 1],
                                            NETWORK_ERROR_MESSAGE, NetworkError)]
    /\ last' = Other
    /\ UNCHANGED <<constructed, customHeaders, debug, logger, baseUrl, key, defaultTimeout, cacheTTL, retryPolicy,
                   flagCache, flagsCache, timers, written, now>>
    /\ log(<<AttemptFailed(calls[c].attempt)>>)

\* the retry delay of call c is over: attempt++, and the loop goes on
DelayElapsesUnawaited(c) ==
    /\ calls[c].pc = "delaying"
    /\ LET after == Attempt(calls[c], calls[c].attempt + 1)
       IN /\ calls' = [calls EXCEPT ![c] = after]
          /\ timers' = timers \cup TimersOf(c, after)
    /\ last' = Other
    /\ UNCHANGED <<constructed, customHeaders, debug, logger, baseUrl, key, defaultTimeout, cacheTTL, retryPolicy,
                   flagCache, flagsCache, written, now>>
    /\ log(<<>>)

DelayElapses(c) ==
    /\ calls[c].pc = "delaying"
    /\ calls[c].resumeAt <= now
    /\ LET after == Attempt(calls[c], calls[c].attempt + 1)
       IN /\ calls' = [calls EXCEPT ![c] = after]
          /\ timers' = timers \cup TimersOf(c, after)
    /\ last' = Other
    /\ UNCHANGED <<constructed, customHeaders, debug, logger, baseUrl, key, defaultTimeout, cacheTTL, retryPolicy,
                   flagCache, flagsCache, written, now>>
    /\ log(<<>>)

\* a timeout timer fires: controller.abort(), on a controller whose signal
\* no network call was given
TimeoutFires(t) ==
    /\ t \in timers
    /\ t.type = "abort"
    /\ t.due <= now
    /\ timers' = timers \ {t}
    /\ last' = Other
    /\ UNCHANGED <<constructed, customHeaders, debug, logger, baseUrl, key, defaultTimeout, cacheTTL, retryPolicy,
                   flagCache, flagsCache, calls, written, now>>
    /\ log(<<>>)

\* an eviction timer fires: cache.delete(key)
EvictionFires(t) ==
    /\ t \in timers
    /\ t.type = "evict"
    /\ t.due <= now
    /\ timers' = timers \ {t}
    /\ IF t.cache = "flags"
       THEN flagsCache' = Delete(flagsCache, t.key) /\ UNCHANGED flagCache
       ELSE flagCache' = Delete(flagCache, t.key) /\ UNCHANGED flagsCache
    /\ last' = Other
    /\ UNCHANGED <<constructed, customHeaders, debug, logger, baseUrl, key, defaultTimeout, cacheTTL, retryPolicy,
                   calls, written, now>>
    /\ log(<<>>)

\* time passes, once every due timer has fired
Tick ==
    /\ now < MaxTime
    /\ \A t \in timers : t.due > now
    /\ \A c \in CallIds : calls[c].pc = "delaying" => calls[c].resumeAt > now
    /\ now' = now + 1
    /\ last' = Other
    /\ UNCHANGED <<constructed, customHeaders, debug, logger, baseUrl, key, defaultTimeout, cacheTTL, retryPolicy,
                   flagCache, flagsCache, calls, timers, written>>
    /\ log(<<>>)

\* the caller has the outcome of call c; the slot serves the next call.  The
\* timeout timers the call left behind act on nothing, and are tracked no longer.
Release(c) ==
    /\ Settled(c)
    /\ calls' = [calls EXCEPT ![c] = IdleCall]
    /\ timers' = { t \in timers : ~(t.type = "abort" /\ t.call = c) }
    /\ last' = Other
    /\ UNCHANGED <<constructed, customHeaders, debug, logger, baseUrl, key, defaultTimeout, cacheTTL, retryPolicy,
                   flagCache, flagsCache, written, now>>
    /\ log(<<>>)

----------------------------------------------------------------------------
(* The two entry points side by side: call 1 is an evaluateFlag and call 2 an
   evaluateFlags of the same environment and user, started together and given
   the same transport outcome at each attempt. *)

PairRequest(c) == IF c = 2 THEN RequestAll ELSE RequestF1

\* both calls start
PairStart ==
    /\ constructed = "ok"
    /\ \A c \in CallIds : calls[c].pc = "idle"
    /\ calls' = [c \in CallIds |-> Start(c = 2, PairRequest(c), <<>>)]
    /\ timers' = timers \cup TimersOf(1, calls'[1]) \cup TimersOf(2, calls'[2])
    /\ last' = Other
    /\ UNCHANGED <<constructed, customHeaders, debug, logger, baseUrl, key, defaultTimeout, cacheTTL, retryPolicy,
                   flagCache, flagsCache, written, now>>
    /\ log(<<Message("Evaluating flag...", EMPTY, NoResult), Message("Evaluating flags...", EMPTY, NoResult)>>)

\* the transport answers the attempt of both calls with the failure `response`
\* (a non-2xx response, or a success response whose body does not parse)
PairFails(response) ==
    /\ \A c \in CallIds : calls[c].pc = "fetching"
    /\ response \in ErrorResponses \cup {MalformedOkResponse}
    /\ calls' = [c \in CallIds |->
                    Catch([calls[c] EXCEPT !.pending = @ - 1],
                          handleErrorResponse(response, ErrorPrefix(calls[c].isMultiple)).message,
                          response)]
    /\ timers' = timers \ {AbortTimer(c, calls[c].attempt, calls[c].timeoutId) : c \in CallIds}
    /\ last' = Other
    /\ UNCHANGED <<constructed, customHeaders, debug, logger, baseUrl, key, defaultTimeout, cacheTTL, retryPolicy,
                   flagCache, flagsCache, written, now>>
    /\ log(<<AttemptFailed(calls[1].attempt), AttemptFailed(calls[2].attempt)>>)

\* the transport rejects the attempt of both calls
PairRejects ==
    /\ \A c \in CallIds : calls[c].pc = "fetching"
    /\ calls' = [c \in CallIds |->
                    Catch([calls[c] EXCEPT !.pending = @ - 1], NETWORK_ERROR_MESSAGE, NetworkError)]
    /\ last' = Other
    /\ UNCHANGED <<constructed, customHeaders, debug, logger, baseUrl, key, defaultTimeout, cacheTTL, retryPolicy,
                   flagCache, flagsCache, timers, written, now>>
    /\ log(<<AttemptFailed(calls[1].attempt), AttemptFailed(calls[2].attempt)>>)

\* the transport answers the attempt of both calls with a success response
PairSucceeds(flag, flags) ==
    /\ \A c \in CallIds : calls[c].pc = "fetching"
    /\ flag \in Bodies(FALSE, calls[1].request)
    /\ flags \in Bodies(TRUE, calls[2].request)
    /\ calls' = [c \in CallIds |->
                    EndCall([calls[c] EXCEPT !.pending = @ - 1], "returned",
                            IF c = 2 THEN flags ELSE flag, "",
                            OkResponse(IF c = 2 THEN flags ELSE flag))]
    /\ flagCache' = Put(flagCache, getCacheKey(calls[1].request), flag)
    /\ flagsCache' = Put(flagsCache, getCacheKey(calls[2].request), flags)
    /\ timers' = (timers \ {AbortTimer(c, calls[c].attempt, calls[c].timeoutId) : c \in CallIds})
                   \cup IF cacheTTL > 0
                        THEN { EvictTimer(PartitionOf(calls[c].isMultiple),
                                          getCacheKey(calls[c].request), Due(cacheTTL)) :
                               c \in CallIds }
                        ELSE {}
    /\ written' = [written EXCEPT
                      !["flag"] = Put(@, getCacheKey(calls[1].request), Written(flag, cacheTTL)),
                      !["flags"] = Put(@, getCacheKey(calls[2].request), Written(flags, cacheTTL))]
    /\ last' = Other
    /\ UNCHANGED <<constructed, customHeaders, debug, logger, baseUrl, key, defaultTimeout, cacheTTL, retryPolicy, now>>
    /\ log(<<Message("Flag evaluated: ", EMPTY, flag), Message("Flags evaluated: ", EMPTY, flags)>>)

\* the retry delay of both calls is over
PairDelayElapses ==
    /\ \A c \in CallIds : calls[c].pc = "delaying" /\ calls[c].resumeAt <= now
    /\ calls' = [c \in CallIds |-> Attempt(calls[c], calls[c].attempt + 1)]
    /\ timers' = timers \cup TimersOf(1, calls'[1]) \cup TimersOf(2, calls'[2])
    /\ last' = Other
    /\ UNCHANGED <<constructed, customHeaders, debug, logger, baseUrl, key, defaultTimeout, cacheTTL, retryPolicy,
                   flagCache, flagsCache, written, now>>
    /\ log(<<>>)

\* both callers have their outcome
PairRelease ==
    /\ \A c \in CallIds : Settled(c)
    /\ calls' = [c \in CallIds |-> IdleCall]
    /\ timers' = { t \in timers : t.type # "abort" }
    /\ last' = Other
    /\ UNCHANGED <<constructed, customHeaders, debug, logger, baseUrl, key, defaultTimeout, cacheTTL, retryPolicy,
                   flagCache, flagsCache, written, now>>
    /\ log(<<>>)

----------------------------------------------------------------------------
(* Specifications *)
(* The features of the client taken all together are beyond exhaustive     *)
(* exploration, so each specification explores the operations its          *)
(* properties are about, from the same constructor and the same actions.   *)

Delays == {0, 1}
TTLs == {0, 2}
Timeouts == {1}
TimeoutArgs == {<<>>, <<2>>}
UrlInputs == {NEW_URL, EMPTY, INVALID_URL, NOHOST_URL}
KeyInputs == {KEY1, EMPTY, INVALID_KEY}

\* One caller's calls, one after the other, and the transport's answers.
Calls(singles, multis, timeoutArgs) ==
    \/ \E r \in singles, t \in timeoutArgs : evaluateFlag(1, r, t)
    \/ \E r \in multis, t \in timeoutArgs : evaluateFlags(1, r, t)
    \/ \E c \in CallIds : \E r \in Responses(calls[c].isMultiple, calls[c].request) :
           FetchResolves(c, r)
    \/ \E c \in CallIds : FetchRejects(c)
    \/ \E c \in CallIds : Release(c)

\* The retry pipeline: the retry policy, the retry delay and clearCache, with
\* the default timeout and no TTL.
Next ==
    \/ Calls(PipelineRequests, PipelineRequests, {<<>>})
    \/ \E c \in CallIds : DelayElapses(c)
    \/ Tick
    \/ \E r \in 0..MaxRetries, d \in Delays : setRetryPolicy(r, d)
    \/ clearCache

Spec == Init /\ [][Next]_vars

\* Validation: every request, under every retry policy and timeout.
NextValidate ==
    \/ Calls(Requests, Requests, TimeoutArgs)
    \/ \E r \in 0..MaxRetries, d \in Delays : setRetryPolicy(r, d)
    \/ \E t \in Timeouts : setTimeout(t)

SpecValidate == Init /\ [][NextValidate]_vars

\* The timeout timers: the timeout parameter and the default timeout.
NextTimeout ==
    \/ Calls({RequestF1}, {RequestAll}, TimeoutArgs)
    \/ \E c \in CallIds : DelayElapses(c)
    \/ \E t \in timers : TimeoutFires(t)
    \/ Tick
    \/ \E t \in Timeouts : setTimeout(t)
    \/ \E r \in 1..MaxRetries : setRetryPolicy(r, 0)

SpecTimeout == Init /\ [][NextTimeout]_vars

\* The same, with the timers of the runtime firing when they are due and the
\* clock going on; the transport is under no obligation to answer.
SpecTimeoutFair ==
    /\ SpecTimeout
    /\ WF_vars(Tick)
    /\ WF_vars(\E t \in timers : TimeoutFires(t))
    /\ WF_vars(\E c \in CallIds : DelayElapses(c))

\* The cache's time-to-live: setCacheTTL, the eviction timers and clearCache.
NextTTL ==
    \/ Calls({RequestF1}, {RequestAll}, {<<>>})
    \/ \E t \in timers : EvictionFires(t)
    \/ Tick
    \/ \E ttl \in TTLs : setCacheTTL(ttl)
    \/ clearCache

SpecTTL == Init /\ [][NextTTL]_vars

\* The configuration surface: the constructor, the base URL and the API key.
NextConfig ==
    \/ Calls({RequestF1}, {RequestAll}, {<<>>})
    \/ \E url \in UrlInputs : setBaseUrl(url)
    \/ resetBaseUrl
    \/ \E k \in KeyInputs : setApiKey(k)

SpecConfig == InitConfig /\ [][NextConfig]_vars

\* Two callers: calls of both entry points for the same environment and
\* user, in flight together.
NextConcurrent ==
    \/ Calls({RequestF1}, {RequestAll}, {<<>>})
    \/ evaluateFlag(2, RequestF1, <<>>)
    \/ evaluateFlags(2, RequestAll, <<>>)

SpecConcurrent == Init /\ [][NextConcurrent]_vars

\* The two entry points side by side, under setRetryPolicy and clearCache
\* calls between their steps.
NextPair ==
    \/ PairStart
    \/ \E r \in ErrorResponses \cup {MalformedOkResponse} : PairFails(r)
    \/ PairRejects
    \/ \E f \in Bodies(FALSE, RequestF1), l \in Bodies(TRUE, RequestAll) : PairSucceeds(f, l)
    \/ PairDelayElapses
    \/ PairRelease
    \/ Tick
    \/ \E r \in 0..MaxRetries, d \in Delays : setRetryPolicy(r, d)
    \/ clearCache

SpecPair == Init /\ [][NextPair]_vars

\* The headers: setCustomHeaders and setApiKey between and during calls.
CHEESE == <<"c","h","e","e","s","e">>
TEXT_PLAIN == <<"t","e","x","t","/","p","l","a","i","n">>
HeaderInputs ==
    { EmptyMap,
      [n \in {"chedar"} |-> CHEESE],
      [n \in {"x-api-key"} |-> KEY1],
      [n \in {"Content-Type", "chedar"} |-> IF n = "chedar" THEN CHEESE ELSE TEXT_PLAIN] }

NextHeaders ==
    \/ Calls({RequestF1}, {RequestAll}, {<<>>})
    \/ \E c \in CallIds : DelayElapses(c)
    \/ \E h \in HeaderInputs : setCustomHeaders(h)
    \/ \E k \in {KEY0, KEY1} : setApiKey(k)
    \/ \E r \in 1..MaxRetries : setRetryPolicy(r, 0)

SpecHeaders == Init /\ [][NextHeaders]_vars

\* Logging: setDebug and setLogger among the setters and the calls.  The
\* other setters are called with the value in effect, or with one they
\* reject, so that the configuration varies in the debug flag, the sink and
\* the number of retries only.
SetterCalls ==
    \/ \E url \in {DEFAULT_BASE_URL, INVALID_URL} : setBaseUrl(url)
    \/ resetBaseUrl
    \/ \E k \in {KEY0, EMPTY} : setApiKey(k)
    \/ \E r \in 1..MaxRetries : setRetryPolicy(r, 0)
    \/ setCustomHeaders(EmptyMap)
    \/ setCacheTTL(DEFAULT_CACHE_TTL)
    \/ setTimeout(DEFAULT_TIMEOUT)
    \/ \E enabled \in BOOLEAN : setDebug(enabled)
    \/ \E sink \in Sinks : setLogger(sink)

NextLog ==
    \/ Calls({RequestF1}, {RequestAll}, {<<>>})
    \/ \E c \in CallIds : DelayElapses(c)
    \/ SetterCalls
    \/ clearCache

SpecLog == InitLog /\ [][NextLog]_vars

----------------------------------------------------------------------------
(* Properties *)

\* The request passes the three checks of the specification.
RequestIsValid(r, isMultiple) ==
    /\ isMultiple \/ r.flag # Absent
    /\ r.environment \notin {Undefined, ""}
    /\ r.user.defined
    /\ r.user.id \notin {Undefined, ""}

\* "{environment}:{user.id}"
KeyOf(r) == r.environment \o ":" \o r.user.id

\* this step is the start of call c
Started(c) == calls[c].pc = "idle" /\ calls'[c].pc # "idle"

\* C1: a call with a valid request whose key is in the partition of its entry
\* point when it starts returns the stored value, makes no network call,
\* starts no delay and no timer, and leaves both partitions as they were.
C1_CacheHitReturnsStoredValue ==
    [][\A c \in CallIds :
        LET r == calls'[c].request
            m == calls'[c].isMultiple
        IN  ( /\ Started(c)
              /\ RequestIsValid(r, m)
              /\ KeyOf(r) \in DOMAIN (IF m THEN flagsCache ELSE flagCache) )
            => /\ calls'[c].pc = "returned"
               /\ calls'[c].result = (IF m THEN flagsCache ELSE flagCache)[KeyOf(r)]
               /\ calls'[c].fetches = 0
               /\ calls'[c].delays = 0
               /\ flagCache' = flagCache
               /\ flagsCache' = flagsCache
               /\ timers' = timers]_vars

\* C1's case: an evaluateFlag call answered from flagCache while flagsCache is empty
C1_Witness ==
    /\ calls[1].pc = "returned"
    /\ ~calls[1].isMultiple
    /\ calls[1].fetches = 0
    /\ KeyOf(calls[1].request) \in DOMAIN flagCache
    /\ calls[1].result = flagCache[KeyOf(calls[1].request)]
    /\ flagsCache = EmptyMap

C3_TimedOutAttemptFails ==
    \A c \in CallIds :
        calls[c].pc = "fetching" =>
            \/ calls[c].timeoutId > now
            \/ AbortTimer(c, calls[c].attempt, calls[c].timeoutId) \in timers

\* C4: a request whose flag and environment are valid and whose user or
\* user.id is missing or empty is rejected with "User ID is required", with
\* no network call and no timer, and both partitions as they were.
C4_MissingUserIdRejected ==
    [][\A c \in CallIds :
        LET r == calls'[c].request
            m == calls'[c].isMultiple
        IN  ( /\ Started(c)
              /\ m \/ r.flag # Absent
              /\ r.environment \notin {Undefined, ""}
              /\ ~r.user.defined \/ r.user.id \in {Undefined, ""} )
            => /\ calls'[c].pc = "rejected"
               /\ calls'[c].error = "User ID is required"
               /\ calls'[c].fetches = 0
               /\ flagCache' = flagCache
               /\ flagsCache' = flagsCache
               /\ timers' = timers]_vars

\* C4's case: an evaluateFlags call without a user, rejected under the policy (2, 1)
C4_Witness ==
    /\ calls[1].pc = "rejected"
    /\ calls[1].isMultiple
    /\ ~calls[1].request.user.defined
    /\ calls[1].error = "User ID is required"
    /\ retryPolicy = [retries |-> 2, delay |-> 1]
    /\ defaultTimeout = 1

\* C5: validation fails under three conditions, the first that holds
\* deciding the message: no flag field in single-flag mode, then a missing or
\* empty environment, then a missing user or a missing or empty user.id; a
\* request meeting none of them passes.
C5_ValidationOrder ==
    [][\A c \in CallIds :
        LET r == calls'[c].request
            noFlag == ~calls'[c].isMultiple /\ r.flag = Absent
            noEnvironment == r.environment \in {Undefined, ""}
            noUserId == ~r.user.defined \/ r.user.id \in {Undefined, ""}
            rejectedWith(message) ==
                calls'[c].pc = "rejected" /\ calls'[c].error = message
        IN  Started(c) =>
               /\ noFlag => rejectedWith("Flag is required")
               /\ ~noFlag /\ noEnvironment => rejectedWith("Environment is required")
               /\ ~noFlag /\ ~noEnvironment /\ noUserId => rejectedWith("User ID is required")
               /\ ~noFlag /\ ~noEnvironment /\ ~noUserId
                     => calls'[c].pc \in {"fetching", "returned"}]_vars

\* C5's case: all three conditions hold, and the first decides
C5_Witness ==
    /\ calls[1].pc = "rejected"
    /\ ~calls[1].isMultiple
    /\ calls[1].request.flag = Absent
    /\ calls[1].request.environment = ""
    /\ ~calls[1].request.user.defined
    /\ calls[1].error = "Flag is required"

\* C6: after a successful response was cached under a TTL T > 0, a call
\* with the same key and entry point that starts before the write's time + T
\* returns the cached value with no network call, and one that starts after
\* it finds the entry removed and makes a network call.
C6_EntryLivesForItsTTL ==
    [][\A c \in CallIds :
        LET r == calls'[c].request
            m == calls'[c].isMultiple
            p == IF m THEN "flags" ELSE "flag"
        IN  ( /\ Started(c)
              /\ RequestIsValid(r, m)
              /\ KeyOf(r) \in DOMAIN written[p]
              /\ written[p][KeyOf(r)].expires )
            => /\ now < written[p][KeyOf(r)].at
                     => /\ calls'[c].pc = "returned"
                        /\ calls'[c].result = written[p][KeyOf(r)].value
                        /\ calls'[c].fetches = 0
               /\ now > written[p][KeyOf(r)].at
                     => /\ calls'[c].pc = "fetching"
                        /\ calls'[c].fetches = 1]_vars

C9_InvalidBaseUrlRejected ==
    [][/\ (last'.op = "setBaseUrl" /\ last'.arg \in {EMPTY, INVALID_URL, NOHOST_URL})
             => /\ last'.error = [prefix |-> "Invalid base URL: ", arg |-> last'.arg]
                /\ baseUrl' = baseUrl
                /\ getConfig'.baseUrl = getConfig.baseUrl
       /\ \A c \in CallIds :
             (calls[c].pc # "fetching" /\ calls'[c].pc = "fetching")
             => calls'[c].url = baseUrl \o (IF calls'[c].isMultiple THEN FLAGS_PATH ELSE FLAG_PATH)]_vars

\* C9's case: setBaseUrl("invalid-url") has thrown, and the URL set before it stays
C9_Witness ==
    /\ last.op = "setBaseUrl"
    /\ last.arg = INVALID_URL
    /\ last.error.prefix = "Invalid base URL: "
    /\ baseUrl = NEW_URL

\* C10: setApiKey with an empty key or one that is not 32 hexadecimal
\* characters throws the invalid-key error, and the key of a constructed
\* client is always 32 hexadecimal characters.
C10_ApiKeyAlwaysHex32 ==
    /\ constructed = "ok" =>
          /\ Len(key) = 32
          /\ \A i \in 1..Len(key) : key[i] \in Digits \cup HexLetters
    /\ (last.op = "setApiKey" /\ last.arg \in {EMPTY, INVALID_KEY})
          => last.error = [prefix |-> INVALID_KEY_MESSAGE, arg |-> EMPTY]

\* C11: a call that is suspended on a network call or a retry delay goes on
\* under the configuration in force when it started, whatever setters run
\* meanwhile: a failed attempt is the last one when it is attempt number
\* `retries` of that configuration and is otherwise followed by that
\* configuration's delay, every attempt goes to that configuration's base
\* URL, and the entry a success writes expires under that configuration's TTL.
C11_SettersDoNotAffectInFlight ==
    [][\A c \in CallIds :
        LET s == calls[c].started
            p == IF calls[c].isMultiple THEN "flags" ELSE "flag"
        IN  /\ (calls[c].pc = "fetching" /\ calls'[c].pc \in {"delaying", "rejected"})
                  => IF calls[c].fetches = s.retries
                     THEN calls'[c].pc = "rejected"
                     ELSE /\ calls'[c].pc = "delaying"
                          /\ calls'[c].resumeAt =
                                IF now + s.delay > MaxTime THEN MaxTime + 1 ELSE now + s.delay
            /\ (calls[c].pc = "delaying" /\ calls'[c].pc # "delaying")
                  => /\ calls'[c].pc = "fetching"
                     /\ calls'[c].url =
                           s.baseUrl \o (IF calls[c].isMultiple THEN FLAGS_PATH ELSE FLAG_PATH)
            /\ (calls[c].pc = "fetching" /\ calls'[c].pc = "returned")
                  => written'[p][KeyOf(calls[c].request)].expires = (s.cacheTTL > 0)]_vars

\* C12: a call that made a network call and has returned returns the parsed
\* body of a success response; it never resolves to undefined after its
\* attempts have failed.
C12_NoFailureSwallowed ==
    \A c \in CallIds :
        (calls[c].pc = "returned" /\ calls[c].fetches >= 1)
            => /\ calls[c].response.received
               /\ calls[c].response.ok
               /\ calls[c].response.json
               /\ calls[c].result = calls[c].response.value
               /\ calls[c].result.tag # "undefined"

\* C13: an attempt that receives a success response whose body does not
\* parse ends the call at once: the call rejects with the parse error, no
\* retry delay starts, and both partitions stay as they were.
C13_MalformedBodyNotRetried ==
    [][\A c \in CallIds :
        /\ (calls[c].pc = "fetching" /\ calls'[c].pc = "delaying")
              => ~calls'[c].malformed
        /\ ( /\ calls[c].pc = "fetching"
             /\ calls'[c].pc = "rejected"
             /\ calls'[c].response.received
             /\ calls'[c].response.ok )
              => /\ calls'[c].error = "Unexpected token < in JSON"
                 /\ flagCache' = flagCache
                 /\ flagsCache' = flagsCache]_vars

\* C14: a call that starts while another call of the same entry point and
\* key is on its network call, the cache not yet written, misses and makes a
\* network call of its own, the other call going on as it was; and whenever
\* one of two such calls succeeds, the entry of the key holds the body of its
\* response, so that after both have succeeded the entry is that of the
\* response that completed later.
C14_NoCoalescingLastWriteWins ==
    [][\A c, d \in CallIds :
        LET m == calls'[c].isMultiple
            k == KeyOf(calls'[c].request)
            same == /\ c # d
                    /\ calls[d].isMultiple = m
                    /\ RequestIsValid(calls'[c].request, m)
                    /\ RequestIsValid(calls[d].request, m)
                    /\ KeyOf(calls[d].request) = k
        IN  /\ ( /\ Started(c)
                 /\ same
                 /\ calls[d].pc = "fetching"
                 /\ k \notin DOMAIN (IF m THEN flagsCache ELSE flagCache) )
               => /\ calls'[c].pc = "fetching"
                  /\ calls'[c].fetches = 1
                  /\ calls'[d] = calls[d]
            /\ ( /\ calls[c].pc = "fetching"
                 /\ calls'[c].pc = "returned"
                 /\ same
                 /\ calls[d].fetches = 1 )
               => /\ k \in DOMAIN (IF m THEN flagsCache' ELSE flagCache')
                  /\ (IF m THEN flagsCache' ELSE flagCache')[k] = calls'[c].response.value
                  /\ calls'[c].result = calls'[c].response.value]_vars

\* C14's case: two evaluateFlag calls for the same key both went to the
\* network and got different bodies, and the entry is the second call's
C14_Witness ==
    /\ calls[1].pc = "returned" /\ calls[2].pc = "returned"
    /\ ~calls[1].isMultiple /\ ~calls[2].isMultiple
    /\ KeyOf(calls[1].request) = KeyOf(calls[2].request)
    /\ calls[1].fetches = 1 /\ calls[2].fetches = 1
    /\ calls[1].result # calls[2].result
    /\ flagCache[KeyOf(calls[2].request)] = calls[2].result

\* C15: no attempt stays pending forever, whatever the transport does: an
\* attempt whose timeout timer is due within the time explored is ended (by
\* the transport's answer, or else by the timer).
C15_PendingAttemptEnds ==
    \A c \in CallIds :
        (calls[c].pc = "fetching" /\ calls[c].timeoutId <= MaxTime)
            ~> (calls[c].pc # "fetching")

\* the call that succeeds in this step, if there is one of entry point m
Succeeds(m) ==
    \E c \in CallIds :
        calls[c].isMultiple = m /\ calls[c].pc = "fetching" /\ calls'[c].pc = "returned"

\* C16 as stated: each entry point writes only its own partition (a success
\* from empty caches leaves sizes 0 and 1), and a call whose key is in the
\* other partition only misses and makes a network call.
C16_PartitionsThenNetworkCall ==
    [][/\ flagCache' # flagCache => last'.op = "clearCache" \/ Succeeds(FALSE)
       /\ flagsCache' # flagsCache => last'.op = "clearCache" \/ Succeeds(TRUE)
       /\ (flagCache = EmptyMap /\ flagsCache = EmptyMap /\ Succeeds(TRUE))
             => getCacheSize' = [flagCache |-> 0, flagsCache |-> 1]
       /\ (flagCache = EmptyMap /\ flagsCache = EmptyMap /\ Succeeds(FALSE))
             => getCacheSize' = [flagCache |-> 1, flagsCache |-> 0]
       /\ \A c \in CallIds :
             LET r == calls'[c].request
                 m == calls'[c].isMultiple
             IN  ( /\ Started(c)
                   /\ RequestIsValid(r, m)
                   /\ KeyOf(r) \notin DOMAIN (IF m THEN flagsCache ELSE flagCache)
                   /\ KeyOf(r) \in DOMAIN (IF m THEN flagCache ELSE flagsCache) )
                 => calls'[c].pc = "fetching" /\ calls'[c].fetches = 1]_vars

\* C16 amended: ... only misses, and makes a network call when the retry
\* policy allows an attempt (retries >= 1); with retries < 1 it returns
\* undefined without one.
C16_PartitionsNeverCollide ==
    [][/\ flagCache' # flagCache => last'.op = "clearCache" \/ Succeeds(FALSE)
       /\ flagsCache' # flagsCache => last'.op = "clearCache" \/ Succeeds(TRUE)
       /\ (flagCache = EmptyMap /\ flagsCache = EmptyMap /\ Succeeds(TRUE))
             => getCacheSize' = [flagCache |-> 0, flagsCache |-> 1]
       /\ (flagCache = EmptyMap /\ flagsCache = EmptyMap /\ Succeeds(FALSE))
             => getCacheSize' = [flagCache |-> 1, flagsCache |-> 0]
       /\ \A c \in CallIds :
             LET r == calls'[c].request
                 m == calls'[c].isMultiple
             IN  ( /\ Started(c)
                   /\ RequestIsValid(r, m)
                   /\ KeyOf(r) \notin DOMAIN (IF m THEN flagsCache ELSE flagCache)
                   /\ KeyOf(r) \in DOMAIN (IF m THEN flagCache ELSE flagsCache) )
                 => IF retryPolicy.retries >= 1
                    THEN calls'[c].pc = "fetching" /\ calls'[c].fetches = 1
                    ELSE /\ calls'[c].pc = "returned" /\ ~calls'[c].hit
                         /\ calls'[c].result.tag = "undefined" /\ calls'[c].fetches = 0]_vars

\* C16's case: after a successful evaluateFlags from empty caches, an
\* evaluateFlag for the same environment and user is on its network call
C16_Witness ==
    /\ calls[1].pc = "fetching"
    /\ ~calls[1].isMultiple
    /\ calls[1].fetches = 1
    /\ flagCache = EmptyMap
    /\ DOMAIN flagsCache = {KeyOf(calls[1].request)}
    /\ getCacheSize = [flagCache |-> 0, flagsCache |-> 1]

\* C17: started together and given the same transport outcomes under the
\* same setter calls, an evaluateFlag and an evaluateFlags are at the same
\* point at every moment: both on a network call, both in a delay that ends
\* at the same time, both returned or both rejected, after as many network
\* calls and delays, and when rejected, by the same failure.
C17_EntryPointsAgree ==
    /\ calls[1].pc = calls[2].pc
    /\ calls[1].fetches = calls[2].fetches
    /\ calls[1].delays = calls[2].delays
    /\ calls[1].resumeAt = calls[2].resumeAt
    /\ calls[1].pc = "rejected" => calls[1].response = calls[2].response
    /\ calls[1].pc = "returned" =>
          (calls[1].result.tag = "undefined") = (calls[2].result.tag = "undefined")

\* C18: under a retry policy with retries = 0, a call with a valid request
\* whose key is not in its partition makes no network call, starts no delay
\* and no timer, writes nothing to the cache, and resolves to undefined
\* without an error.
C18_ZeroRetriesZeroAttempts ==
    [][\A c \in CallIds :
        LET r == calls'[c].request
            m == calls'[c].isMultiple
        IN  ( /\ Started(c)
              /\ RequestIsValid(r, m)
              /\ KeyOf(r) \notin DOMAIN (IF m THEN flagsCache ELSE flagCache)
              /\ retryPolicy.retries = 0 )
            => /\ calls'[c].pc = "returned"
               /\ calls'[c].result.tag = "undefined"
               /\ calls'[c].error = ""
               /\ calls'[c].fetches = 0
               /\ calls'[c].delays = 0
               /\ flagCache' = flagCache
               /\ flagsCache' = flagsCache
               /\ written' = written
               /\ timers' = timers]_vars

\* C18's case: an evaluateFlags call that missed under retries = 0 has resolved to undefined
C18_Witness ==
    /\ retryPolicy.retries = 0
    /\ calls[1].pc = "returned"
    /\ calls[1].isMultiple
    /\ RequestIsValid(calls[1].request, TRUE)
    /\ ~calls[1].hit
    /\ calls[1].fetches = 0
    /\ calls[1].result.tag = "undefined"
    /\ flagsCache = EmptyMap

\* C19: an entry written while the TTL is zero stays in its partition, with
\* the value written, until clearCache: no passage of time removes it.
C19_NoTTLEntryLivesUntilCleared ==
    \A p \in Partitions : \A k \in DOMAIN written[p] :
        ~written[p][k].expires =>
            /\ k \in DOMAIN (IF p = "flags" THEN flagsCache ELSE flagCache)
            /\ (IF p = "flags" THEN flagsCache ELSE flagCache)[k] = written[p][k].value

\* C21: the constructor given a key that is empty or is not 32 hexadecimal
\* characters throws the invalid-key error and yields no client (no
\* operation ever runs on it); given a valid key it yields a client with that
\* key, whose base URL is DEFAULT_BASE_URL when the config has none.
C21_ConstructorValidatesKey ==
    LET hex32 == /\ Len(last.arg) = 32
                 /\ \A i \in 1..Len(last.arg) :
                       last.arg[i] \in {"0","1","2","3","4","5","6","7","8","9",
                                        "a","b","c","d","e","f","A","B","C","D","E","F"}
    IN  /\ constructed = "threw" => last.op = "constructor"
        /\ last.op = "constructor" =>
              IF hex32
              THEN /\ constructed = "ok"
                   /\ last.error = [prefix |-> "", arg |-> <<>>]
                   /\ key = last.arg
                   /\ getConfig.key = last.arg
                   /\ last.url = <<>> =>
                         baseUrl = <<"h","t","t","p",":","/","/","l","o","c","a","l","h","o","s","t",":","5","1","7","3">>
              ELSE /\ constructed = "threw"
                   /\ last.error =
                         [prefix |-> "Invalid API key. The key must be a 32-character hexadecimal string.",
                          arg |-> <<>>]

\* C21's case: the constructor has thrown on a key of 32 characters, the last
\* of them no hexadecimal digit
C21_Witness ==
    /\ last.op = "constructor"
    /\ Len(last.arg) = 32
    /\ last.arg[32] = "g"
    /\ constructed = "threw"
    /\ last.error.prefix = "Invalid API key. The key must be a 32-character hexadecimal string."

\* C22: every network call carries Content-Type: application/json and
\* x-api-key: the key in effect when the attempt starts, merged with the
\* custom headers in effect, a custom header replacing one of the two of the
\* same name; without custom headers it carries exactly those two.
C22_HeadersOfEveryAttempt ==
    [][\A c \in CallIds :
        (calls[c].pc # "fetching" /\ calls'[c].pc = "fetching") =>
            LET sent == calls'[c].headers
            IN  /\ DOMAIN sent = {"Content-Type", "x-api-key"} \cup DOMAIN customHeaders
                /\ \A n \in DOMAIN customHeaders : sent[n] = customHeaders[n]
                /\ "Content-Type" \notin DOMAIN customHeaders
                      => sent["Content-Type"] =
                            <<"a","p","p","l","i","c","a","t","i","o","n","/","j","s","o","n">>
                /\ "x-api-key" \notin DOMAIN customHeaders => sent["x-api-key"] = key
                /\ DOMAIN customHeaders = {}
                      => DOMAIN sent = {"Content-Type", "x-api-key"}]_vars

\* C22's case: the second attempt of a call is sent with a custom
\* Content-Type in place of application/json, the key changed since the call started
C22_Witness ==
    /\ calls[1].pc = "fetching"
    /\ calls[1].fetches = 2
    /\ DOMAIN calls[1].headers = {"Content-Type", "x-api-key", "chedar"}
    /\ calls[1].headers["Content-Type"] = <<"t","e","x","t","/","p","l","a","i","n">>
    /\ calls[1].headers["x-api-key"] = KEY1

\* C23: a call rejected on a non-2xx response that carries no detail (a JSON
\* body without an error field or with a null one, or an empty body that is
\* not JSON) has the message "<prefix>: Internal Server Error".
C23_DefaultErrorDetail ==
    \A c \in CallIds :
        LET resp == calls[c].response
            prefix == IF calls[c].isMultiple THEN "Failed to evaluate flags"
                      ELSE "Failed to evaluate flag"
        IN  ( /\ calls[c].pc = "rejected"
              /\ resp.received
              /\ ~resp.ok
              /\ \/ resp.json /\ resp.error \in {Undefined, Null}
                 \/ ~resp.json /\ resp.text = "" )
            => calls[c].error = prefix \o ": Internal Server Error"

\* C24: the base URL of a constructed client is a well-formed URL in every
\* state, whatever base URL the constructor was given and whatever setBaseUrl
\* and resetBaseUrl calls followed.
C24_BaseUrlAlwaysWellFormed ==
    constructed = "ok" => ParsesAsURL(baseUrl)

\* C25: when attempt k of a call (k <= retries, the k-1 attempts before it
\* failed) receives a success response with a valid body, the call returns
\* that body after exactly k network calls and k-1 delays, the body is the
\* entry of the request's key in the partition of the entry point, the other
\* partition is as it was, and the returned call makes no further step.
C25_SuccessEndsTheRetryLoop ==
    [][\A c \in CallIds :
        LET m == calls[c].isMultiple
            k == calls[c].attempt
            own == IF m THEN flagsCache' ELSE flagCache'
        IN  /\ \A v \in Bodies(m, calls[c].request) :
                 (FetchResolves(c, OkResponse(v)) /\ k <= retryPolicy.retries)
                 => /\ calls'[c].pc = "returned"
                    /\ calls'[c].result = v
                    /\ calls[c].fetches = k
                    /\ calls'[c].fetches = k
                    /\ calls'[c].delays = k - 1
                    /\ KeyOf(calls[c].request) \in DOMAIN own
                    /\ own[KeyOf(calls[c].request)] = v
                    /\ IF m THEN flagCache' = flagCache ELSE flagsCache' = flagsCache
            /\ calls[c].pc = "returned"
                 => \/ calls'[c] = calls[c]
                    \/ calls'[c].pc = "idle"]_vars

\* C25's case: an evaluateFlags call whose first attempt failed and whose
\* second succeeded has returned the body, which is in flagsCache
C25_Witness ==
    /\ calls[1].pc = "returned"
    /\ calls[1].isMultiple
    /\ calls[1].fetches = 2
    /\ calls[1].delays = 1
    /\ calls[1].response.ok
    /\ retryPolicy.retries = 2
    /\ KeyOf(calls[1].request) \in DOMAIN flagsCache
    /\ flagsCache[KeyOf(calls[1].request)] = calls[1].result
    /\ flagCache = EmptyMap

\* C26: the attempts of one call are strictly sequential: a call never has
\* two network calls unanswered, a network call starts only when none of the
\* call is unanswered, attempt k+1 starts only from the delay that followed
\* attempt k and not before that delay is over, and a delay starts only when
\* an attempt has failed.
C26_AttemptsAreSequential ==
    [][\A c \in CallIds :
        /\ calls'[c].pending <= 1
        /\ calls'[c].fetches > calls[c].fetches
              => /\ calls'[c].fetches = calls[c].fetches + 1
                 /\ calls[c].pending = 0
                 /\ calls'[c].attempt > 1
                       => /\ calls[c].pc = "delaying"
                          /\ calls'[c].attempt = calls[c].attempt + 1
                          /\ now >= calls[c].resumeAt
        /\ (calls[c].pc # "delaying" /\ calls'[c].pc = "delaying")
              => /\ calls[c].pc = "fetching"
                 /\ calls[c].pending = 1
                 /\ calls'[c].pending = 0
                 /\ calls'[c].resumeAt >= now]_vars

\* C26's case: the second attempt of a call is in flight, alone, after a
\* delay of 1 that began at the failure of the first
C26_Witness ==
    /\ calls[1].pc = "fetching"
    /\ calls[1].attempt = 2
    /\ calls[1].fetches = 2
    /\ calls[1].delays = 1
    /\ calls[1].pending = 1
    /\ retryPolicy.delay = 1
    /\ calls[1].stable
    /\ now >= 1

\* C27: an entry appears in a partition, or changes, only in the step in
\* which a call of that partition's entry point and of that key receives a
\* success response whose body parses, and the entry is that body; the step
\* in which a call fails validation, or in which an attempt fails (the call
\* going to its delay or rejecting), leaves both partitions as they were.
C27_OnlySuccessWritesTheCache ==
    [][/\ \A p \in Partitions :
             LET old == IF p = "flags" THEN flagsCache ELSE flagCache
                 new == IF p = "flags" THEN flagsCache' ELSE flagCache'
             IN  \A k \in DOMAIN new :
                    (k \notin DOMAIN old \/ old[k] # new[k])
                    => \E c \in CallIds :
                          /\ calls[c].pc = "fetching"
                          /\ calls'[c].pc = "returned"
                          /\ calls[c].isMultiple = (p = "flags")
                          /\ KeyOf(calls[c].request) = k
                          /\ calls'[c].response.received
                          /\ calls'[c].response.ok
                          /\ calls'[c].response.json
                          /\ new[k] = calls'[c].response.value
       /\ \A c \in CallIds :
             ( \/ Started(c) /\ calls'[c].pc = "rejected"
               \/ calls[c].pc = "fetching" /\ calls'[c].pc \in {"delaying", "rejected"} )
             => flagCache' = flagCache /\ flagsCache' = flagsCache]_vars

\* C27's case: a call whose two attempts failed on non-2xx responses has
\* rejected, and the entry an earlier call of the other entry point wrote is
\* the only one in the cache
C27_Witness ==
    /\ calls[1].pc = "rejected"
    /\ ~calls[1].isMultiple
    /\ calls[1].fetches = 2
    /\ calls[1].response.received
    /\ ~calls[1].response.ok
    /\ flagCache = EmptyMap
    /\ DOMAIN flagsCache = {KeyOf(calls[1].request)}

\* C28: a call validates, then looks its key up, then goes to the network: a
\* request that is not valid is rejected with a validation error, without a
\* cache answer and without a network call, whatever the partitions hold
\* (also an entry under its environment:user.id), and a call starts a
\* network call only with a valid request whose key its partition lacks.
C28_ValidationThenLookupThenNetwork ==
    [][\A c \in CallIds :
        LET r == calls'[c].request
            m == calls'[c].isMultiple
        IN  /\ (Started(c) /\ ~RequestIsValid(r, m))
                  => /\ calls'[c].pc = "rejected"
                     /\ calls'[c].error \in
                           {"Flag is required", "Environment is required", "User ID is required"}
                     /\ ~calls'[c].hit
                     /\ calls'[c].result.tag = "undefined"
                     /\ calls'[c].fetches = 0
            /\ (Started(c) /\ calls'[c].pc = "fetching")
                  => /\ RequestIsValid(r, m)
                     /\ KeyOf(r) \notin DOMAIN (IF m THEN flagsCache ELSE flagCache)
            /\ (Started(c) /\ calls'[c].hit)
                  => RequestIsValid(r, m)]_vars

\* C28's case: an evaluateFlag request without a flag field is rejected
\* while flagCache holds an entry under its environment:user.id
C28_Witness ==
    /\ calls[1].pc = "rejected"
    /\ ~calls[1].isMultiple
    /\ calls[1].request.flag = Absent
    /\ calls[1].request.environment = "prod"
    /\ calls[1].request.user = User("u1")
    /\ calls[1].error = "Flag is required"
    /\ "prod:u1" \in DOMAIN flagCache

\* C29: when an attempt has ended, by a response or by a transport error,
\* its timeout timer is no longer pending: a call that is not on a network
\* call (in its delay, returned or rejected) has no timeout timer left.
C29_TimeoutTimerCancelled ==
    \A c \in CallIds :
        calls[c].pc # "fetching" =>
            ~ \E t \in timers : t.type = "abort" /\ t.call = c

\* C30: an entry written at time t while the TTL is T > 0 is in its
\* partition, with the value written, at every time before t + T unless
\* clearCache is called meanwhile; the eviction timer of an earlier write of
\* the key does not remove it.
C30_EntryOutlivesEarlierTimers ==
    \A p \in Partitions : \A k \in DOMAIN written[p] :
        (written[p][k].expires /\ now < written[p][k].at) =>
            /\ k \in DOMAIN (IF p = "flags" THEN flagsCache ELSE flagCache)
            /\ (IF p = "flags" THEN flagsCache ELSE flagCache)[k] = written[p][k].value

\* C31: the value an evaluateFlag call returns for a request naming flag f
\* is the evaluation of flag f: a call answered from the cache does not
\* return the result stored for another flag of the same environment and user.
C31_ResultIsOfTheRequestedFlag ==
    \A c \in CallIds :
        (calls[c].pc = "returned" /\ ~calls[c].isMultiple /\ calls[c].result.tag = "flag")
            => calls[c].result.flag = calls[c].request.flag

\* C32: the TTL in force at the write decides an entry's eviction: a step
\* that changes the TTL changes neither the partitions nor the pending
\* eviction timers, and an entry written while the TTL was zero is still
\* returned, without a network call, to every later call of its key and entry
\* point until clearCache, whatever the TTL has been set to since.
C32_TTLOfTheWriteDecides ==
    [][/\ cacheTTL' # cacheTTL
             => /\ flagCache' = flagCache
                /\ flagsCache' = flagsCache
                /\ timers' = timers
       /\ \A c \in CallIds :
             LET r == calls'[c].request
                 m == calls'[c].isMultiple
                 p == IF m THEN "flags" ELSE "flag"
             IN  ( /\ Started(c)
                   /\ RequestIsValid(r, m)
                   /\ KeyOf(r) \in DOMAIN written[p]
                   /\ ~written[p][KeyOf(r)].expires )
                 => /\ calls'[c].pc = "returned"
                    /\ calls'[c].hit
                    /\ calls'[c].result = written[p][KeyOf(r)].value
                    /\ calls'[c].fetches = 0]_vars

EvaluationStep(c) ==
    \/ Started(c)
    \/ calls[c].pc = "fetching" /\ calls'[c].pc \in {"delaying", "rejected", "returned"}

\* C34 as stated: a sink receives a message only in a step that leaves debug
\* on, and it is the sink configured at the end of that step; with debug off
\* no step gives any sink a message (setDebug(false) included); with debug on
\* every setter call and every evaluation step gives the sink exactly one.
C34_OneMessagePerStep ==
    [][/\ ~debug' => logged' = <<>>
       /\ \A i \in 1..Len(logged') : logged'[i].sink = logger'
       /\ (debug' /\ (SetterCalls \/ \E c \in CallIds : EvaluationStep(c)))
             => Len(logged') = 1]_vars

\* C34 amended: ... with debug on every setter call that returns and every
\* evaluation step gives the sink exactly one message, and a setter call
\* that throws (setBaseUrl with an invalid URL, setApiKey with an empty key)
\* gives it none.
C34_OneMessagePerCompletedStep ==
    [][/\ ~debug' => logged' = <<>>
       /\ \A i \in 1..Len(logged') : logged'[i].sink = logger'
       /\ (debug' /\ (SetterCalls \/ \E c \in CallIds : EvaluationStep(c)))
             => Len(logged') = IF last'.error.prefix = "" THEN 1 ELSE 0]_vars

\* C34's case: with debug on and the second custom sink set, the failure of
\* a first attempt gave that sink its one message
C34_Witness ==
    /\ debug
    /\ logger = "customLogger2"
    /\ calls[1].pc = "delaying"
    /\ calls[1].fetches = 1
    /\ Len(logged) = 1
    /\ logged[1].sink = "customLogger2"
    /\ logged[1].message.text = "[FeatureFlagClient] Attempt 1 failed."

====
